---- MODULE Spec2Model ----
(***************************************************************************)
(* The client-side page loader (packages/next/client/page-loader.js) as a  *)
(* state machine: the page cache, the loading set, the registry of         *)
(* listeners, the promises handed to callers, the manifest promises with   *)
(* their queued callbacks, and the script and link elements of the         *)
(* document.  Strings are sequences of one-character strings, so that the  *)
(* route and URL functions compute on characters as the code does.         *)
(***************************************************************************)
EXTENDS Integers, Sequences, FiniteSets, TLC

\* ------------------------------------------------------------------ bounds

MaxLoads == 2
MaxRegisters == 2
MaxPrefetches == 1
MaxDataPrefetches == 2
MaxStatusChanges == 1
MaxLoadsBesidePrefetch == 1
MaxTokens == 3
MaxScripts == 2

\* ----------------------------------------------------------------- strings

StartsWith(s, p) == Len(p) <= Len(s) /\ SubSeq(s, 1, Len(p)) = p

EndsWith(s, x) == Len(x) <= Len(s) /\ SubSeq(s, Len(s) - Len(x) + 1, Len(s)) = x

\* encodeURI, on the characters the model's routes and paths use
EncodeURIChar(c) ==
  IF c = " " THEN <<"%", "2", "0">>
  ELSE IF c = "[" THEN <<"%", "5", "B">>
  ELSE IF c = "]" THEN <<"%", "5", "D">>
  ELSE <<c>>

RECURSIVE EncodeURI(_)
EncodeURI(s) ==
  IF s = <<>> THEN <<>> ELSE EncodeURIChar(Head(s)) \o EncodeURI(Tail(s))

\* encodeURIComponent: as encodeURI, and the reserved characters too
EncodeURIComponentChar(c) ==
  IF c = "/" THEN <<"%", "2", "F">>
  ELSE IF c = "?" THEN <<"%", "3", "F">>
  ELSE EncodeURIChar(c)

RECURSIVE EncodeURIComponent(_)
EncodeURIComponent(s) ==
  IF s = <<>> THEN <<>>
  ELSE EncodeURIComponentChar(Head(s)) \o EncodeURIComponent(Tail(s))

\* what a template literal or a thrown Error stands for when no string is there
Undefined == "undefined"
UndefinedText == <<"u", "n", "d", "e", "f", "i", "n", "e", "d">>
Thrown == <<"Error">>

\* --------------------------------------------------- routes and asset paths

RouteRoot == <<"/">>
RouteA == <<"/", "a">>
RouteASlash == <<"/", "a", "/">>
RouteB == <<"/", "b">>
RouteM == <<"/", "m">>
RouteApp == <<"/", "_", "a", "p", "p">>
RouteError == <<"/", "_", "e", "r", "r", "o", "r">>
RouteNoSlash == <<"a">>
RouteP == <<"/", "[", "p", "]">>
RouteS == <<"/", "[", ".", ".", ".", "s", "]">>
IndexPath == <<"/", "i", "n", "d", "e", "x">>

NormalizeRouteLenient(route) ==
  IF route = <<>> \/ route = RouteRoot THEN route
  ELSE IF route[Len(route)] = "/" THEN SubSeq(route, 1, Len(route) - 1)
  ELSE route

\* normalizeRoute: throws unless the route starts with "/", keeps "/", and
\* strips one trailing "/" from anything else
NormalizeRoute(route) ==
  IF Len(route) = 0 \/ route[1] # "/" THEN Thrown
  ELSE IF route = RouteRoot THEN route
  ELSE IF route[Len(route)] = "/" THEN SubSeq(route, 1, Len(route) - 1)
  ELSE route

GetAssetPathAnyIndex(route) ==
  IF route = RouteRoot THEN IndexPath
  ELSE IF StartsWith(route, IndexPath) THEN IndexPath \o route
  ELSE route

\* getAssetPath: /^\/index(\/|$)/ is "/index" alone or followed by "/"
GetAssetPath(route) ==
  IF route = RouteRoot THEN IndexPath
  ELSE IF route = IndexPath \/ StartsWith(route, IndexPath \o <<"/">>)
       THEN IndexPath \o route
  ELSE route

\* ------------------------------------------------------------- environment

AssetPrefix == <<>>
BuildId == <<"B">>
NextDir == <<"/", "_", "n", "e", "x", "t", "/">>
ExtJs == <<".", "j", "s">>
ExtCss == <<".", "c", "s", "s">>
ExtJson == <<".", "j", "s", "o", "n">>
ExtModuleJs == <<".", "m", "o", "d", "u", "l", "e", ".", "j", "s">>
StaticDir == <<"s", "t", "a", "t", "i", "c", "/">>
PagesDir == <<"p", "a", "g", "e", "s">>
DataDir == <<"d", "a", "t", "a", "/">>

\* process.env.__NEXT_MODERN_BUILD && hasNoModule
ModernBuild == FALSE

\* relPrefetch: 'preload' only where preload is supported and prefetch is not
HasRel(rel) == rel = "prefetch"
RelPrefetch ==
  IF HasRel("preload") /\ ~HasRel("prefetch") THEN "preload" ELSE "prefetch"

\* window.__BUILD_MANIFEST: route -> raw asset paths (RouteM has no entry);
\* the two pages share the chunk c.js
BuildManifest ==
  [r \in {RouteA, RouteB} |->
     IF r = RouteA
     THEN << <<"c", ".", "j", "s">>, <<"a", ".", "c", "s", "s">> >>
     ELSE << <<"c", ".", "j", "s">>, <<"b", ".", "j", "s">> >>]

\* window.__SSG_MANIFEST: the routes with generated data
SsgManifest == {RouteA, RouteP, RouteS}

\* ------------------------------------------------------------------ values

Err(code, what) == [code |-> code, what |-> what]
NoError == Err("none", <<>>)

\* pageLoadError(route)
PageLoadError(route) == Err("PAGE_LOAD_ERROR", route)

\* the object a listener receives and a cache entry holds: { error, page, mod }
Evt(error, page, mod) == [error |-> error, page |-> page, mod |-> mod]
NoEntry == Evt(NoError, Undefined, Undefined)

\* the loader functions a page's code may pass to registerPage
FnDefault == [throws |-> FALSE, mod |-> "modA", default |-> "PageA"]
FnPlain == [throws |-> FALSE, mod |-> "modB", default |-> Undefined]
FnThrows == [throws |-> TRUE, mod |-> Undefined, default |-> Undefined]
RegFns == {FnDefault, FnPlain, FnThrows}
ThrownByRegFn == Err(Undefined, <<"regFn">>)

Put(f, k, v) == [x \in DOMAIN f \cup {k} |-> IF x = k THEN v ELSE f[x]]
EmptyMap == [x \in {} |-> NoEntry]

\* ------------------------------------------------------------------- state

VARIABLES
  NODE_ENV,            \* process.env.NODE_ENV
  pageCache,           \* this.pageCache: route -> { error, page, mod }
  loadingRoutes,       \* this.loadingRoutes: the routes marked true
  all,                 \* the registry's handlers: route -> sequence of listeners
  promises,            \* the promises loadPage returned, in call order
  buildManifestReady,  \* promisedBuildManifest is resolved
  depThens,            \* callbacks queued on promisedBuildManifest, in order
  ssgManifestReady,    \* promisedSsgManifest is resolved
  ssgThens,            \* callbacks queued on promisedSsgManifest, in order
  scripts,             \* the script elements appended to document.body
  links,               \* the link elements appended to document.head
  prefetches,          \* the promises prefetch returned (dependencies included)
  dataPromises,        \* the promises prefetchData returned
  hotStatus,           \* module.hot.status()
  statusHandlers,      \* the handlers registered with module.hot.status(check)
  calls,               \* how many registerPage calls and status changes were made
  registered,          \* per route, the outcome of its latest register() and how
                       \* many ran (history)
  call                 \* the latest call that returned no promise: what was
                       \* called, its argument, and what it returned or threw

vars ==
  <<NODE_ENV, pageCache, loadingRoutes, all, promises, buildManifestReady,
    depThens, ssgManifestReady, ssgThens, scripts, links, prefetches,
    dataPromises, hotStatus, statusHandlers, calls, registered, call>>

\* the part of the state the loader's methods and callbacks thread through
Cur ==
  [pageCache |-> pageCache, loadingRoutes |-> loadingRoutes, all |-> all,
   promises |-> promises, depThens |-> depThens,
   scripts |-> scripts, links |-> links, prefetches |-> prefetches,
   statusHandlers |-> statusHandlers, registered |-> registered]

Become(S) ==
  /\ pageCache' = S.pageCache
  /\ loadingRoutes' = S.loadingRoutes
  /\ all' = S.all
  /\ promises' = S.promises
  /\ depThens' = S.depThens
  /\ scripts' = S.scripts
  /\ links' = S.links
  /\ prefetches' = S.prefetches
  /\ statusHandlers' = S.statusHandlers
  /\ registered' = S.registered

Get(f, k, default) == IF k \in DOMAIN f THEN f[k] ELSE default

\* no such call yet; a call that returned a value; a call that threw
NoCall == [fn |-> "none", arg |-> <<>>, ret |-> <<>>]
Returned(fn, arg, ret) == [fn |-> fn, arg |-> arg, ret |-> ret]
Threw(fn, arg) == Returned(fn, arg, Thrown)

\* ------------------------------------------------ the registry (lib/mitt)

\* on(type, handler): (all[type] || (all[type] = [])).push(handler)
On(handlers, type, h) == Put(handlers, type, Append(Get(handlers, type, <<>>), h))

RECURSIVE IndexOf(_, _, _)
IndexOf(seq, h, i) ==
  IF i > Len(seq) THEN 0 ELSE IF seq[i] = h THEN i ELSE IndexOf(seq, h, i + 1)

RemoveAt(seq, i) ==
  IF i = 0 THEN seq ELSE SubSeq(seq, 1, i - 1) \o SubSeq(seq, i + 1, Len(seq))

\* off(type, handler): all[type].splice(all[type].indexOf(handler) >>> 0, 1)
Off(handlers, type, h) ==
  IF type \in DOMAIN handlers
  THEN [handlers EXCEPT ![type] = RemoveAt(@, IndexOf(@, h, 1))]
  ELSE handlers

\* emit returns nothing
EmitResult == Undefined

\* a ?? b
Nullish(a, b) == IF a = Undefined THEN b ELSE a

\* ------------------------------------------------------ loadPage's promise

\* resolve / reject: a promise settles once, later calls change nothing
Settle(p, evt) ==
  IF p.st # "pending" THEN p
  ELSE IF evt.error # NoError
       THEN [p EXCEPT !.st = "rejected", !.error = evt.error]
  ELSE [p EXCEPT !.st = "resolved", !.page = evt.page, !.mod = evt.mod]

\* route is the normalized route of the call, under which fire is subscribed;
\* routeVar is the closure's route variable, which fire reads when it runs
NewPromise(route, S) ==
  [route |-> route, routeVar |-> route, st |-> "pending", error |-> NoError,
   page |-> Undefined,
   mod |-> Undefined, fired |-> 0, kicked |-> FALSE,
   bornCached |-> route \in DOMAIN S.pageCache,
   bornLoading |-> route \in S.loadingRoutes]

\* fire({ error, page, mod }): unsubscribe, unmark the route, settle
Fire(S, pid, evt) ==
  LET route == S.promises[pid].routeVar
  IN [S EXCEPT !.all = Off(@, route, pid),
               !.loadingRoutes = @ \ {route},
               !.promises[pid] = [Settle(@, evt) EXCEPT !.fired = @ + 1]]

RECURSIVE CallHandlers(_, _, _)
CallHandlers(S, handlers, evt) ==
  IF handlers = <<>> THEN S
  ELSE CallHandlers(Fire(S, Head(handlers), evt), Tail(handlers), evt)

\* emit(type, evt): (all[type] || []).slice().map(handler => handler(evt))
Emit(S, type, evt) ==
  CallHandlers(S, Get(S.all, type, <<>>), evt)

\* ---------------------------------------------------------------- elements

\* loadScript(url, route): a script element whose onerror emits for route
LoadScript(S, url, route) ==
  [S EXCEPT !.scripts = Append(@, [src |-> url, route |-> route, st |-> "pending"])]

ScriptOnErrorCaching(S, i) ==
  LET evt == Evt(PageLoadError(S.scripts[i].src), Undefined, Undefined)
  IN Emit([S EXCEPT !.pageCache = Put(@, S.scripts[i].route, evt)],
          S.scripts[i].route, evt)

\* the script element's onerror handler
ScriptOnError(S, i) ==
  Emit(S, S.scripts[i].route, Evt(PageLoadError(S.scripts[i].src), Undefined, Undefined))

\* appendLink(href, rel, as): the element is appended at once; the promise
\* follows the element's load and error events
AppendLink(S, href, rel, as) ==
  [S EXCEPT !.links = Append(@, [href |-> href, rel |-> rel, as |-> as, st |-> "pending"])]

QueryScriptNever(S, d) == FALSE

\* document.querySelector(`script[src^="${d}"]`)
QueryScript(S, d) ==
  d # <<>> /\ \E i \in 1..Len(S.scripts) : StartsWith(S.scripts[i].src, d)

\* document.querySelector(`link[rel=...][href^="${d}"]`)
QueryLink(S, rel, d) ==
  d # <<>> /\ \E i \in 1..Len(S.links) : S.links[i].rel = rel /\ StartsWith(S.links[i].href, d)

\* the state of appendLink's promise for link i
LinkPromise(S, i) ==
  IF S.links[i].st = "loaded" THEN "fulfilled"
  ELSE IF S.links[i].st = "error" THEN "rejected"
  ELSE "pending"

\* ------------------------------------------------------------ registerPage

CacheWriteOnce(cache, route, entry) ==
  IF route \in DOMAIN cache THEN cache ELSE Put(cache, route, entry)

\* this.pageCache[route] = ...
CacheWrite(cache, route, entry) == Put(cache, route, entry)

\* what register() stores and broadcasts for a loader function
PageData(fn) ==
  IF fn.throws THEN Evt(ThrownByRegFn, Undefined, Undefined)
  ELSE Evt(NoError, IF fn.default # Undefined THEN fn.default ELSE fn.mod, fn.mod)

\* register(): run the loader function, store the outcome, broadcast it
Register(S, route, fn) ==
  Emit([S EXCEPT !.pageCache = CacheWrite(@, route, PageData(fn)),
                 !.registered =
                   Put(@, route, [entry |-> PageData(fn),
                                  runs |-> Get(@, route, [runs |-> 0]).runs + 1])],
       route, PageData(fn))

\* module.hot && module.hot.status() !== 'idle', outside production
MustWaitForIdle == NODE_ENV # "production" /\ hotStatus # "idle"

\* registerPage(route, regFn)
RegisterPage(S, route, fn) ==
  IF MustWaitForIdle
  THEN [S EXCEPT !.statusHandlers =
          Append(@, [route |-> route, fn |-> fn])]
  ELSE Register(S, route, fn)

\* check(status), the handler at index i: on 'idle', remove it and register
Check(S, i, status) ==
  IF status = "idle"
  THEN Register([S EXCEPT !.statusHandlers = RemoveAt(@, i)],
                S.statusHandlers[i].route, S.statusHandlers[i].fn)
  ELSE S

\* the hot-reload runtime calls the handlers by index over the live list
RECURSIVE CallStatusHandlers(_, _, _)
CallStatusHandlers(S, status, i) ==
  IF i > Len(S.statusHandlers) THEN S
  ELSE CallStatusHandlers(Check(S, i, status), status, i + 1)

\* --------------------------------------------------------- getDependencies

ReportMissingNowhere(S, route) == S

\* the failure event getDependencies emits for a route the manifest lacks
ReportMissing(S, route) ==
  Emit(S, route, Evt(PageLoadError(route), Undefined, Undefined))

\* m[route].map((url) => `${this.assetPrefix}/_next/${encodeURI(url)}`)
DependencyUrls(paths) ==
  [i \in 1..Len(paths) |-> AssetPrefix \o NextDir \o EncodeURI(paths[i])]

\* the callback getDependencies runs on the manifest: the state it leaves and
\* the list it resolves to
GetDependencies(S, route) ==
  IF route \in DOMAIN BuildManifest
  THEN [S |-> S, deps |-> DependencyUrls(BuildManifest[route])]
  ELSE [S |-> ReportMissing(S, route), deps |-> Nullish(EmitResult, <<>>)]

\* ---------------------------------------------------------------- loadPage

CachedPageNever(cache, route) == NoEntry

\* const cachedPage = this.pageCache[route]
CachedPage(cache, route) == Get(cache, route, NoEntry)

ShouldStartLoadAlways(loading, route) == TRUE

\* if (!this.loadingRoutes[route])
ShouldStartLoad(loading, route) == route \notin loading

\* the development script URL of a route
DevScriptUrl(route) ==
  AssetPrefix \o NextDir \o StaticDir \o PagesDir
    \o EncodeURI(GetAssetPath(route)) \o ExtJs

\* the body of forEach in loadPage's dependency callback
InjectDependency(S, d, route) ==
  LET S1 == IF EndsWith(d, ExtJs) /\ ~QueryScript(S, d)
            THEN LoadScript(S, d, route) ELSE S
  IN IF EndsWith(d, ExtCss) /\ ~QueryLink(S1, "stylesheet", d)
     THEN AppendLink(S1, d, "stylesheet", Undefined) ELSE S1

RECURSIVE InjectDependencies(_, _, _)
InjectDependencies(S, deps, route) ==
  IF deps = <<>> THEN S
  ELSE InjectDependencies(InjectDependency(S, Head(deps), route), Tail(deps), route)

\* this.getDependencies(route).then((deps) => deps.forEach(...)), once it runs
LoadDependencies(S, route) ==
  LET got == GetDependencies(S, route)
  IN InjectDependencies(got.S, got.deps, route)

\* the executor of the promise loadPage returns, for a normalized route
LoadPage(S, route) ==
  LET pid == Len(S.promises) + 1
      cachedPage == CachedPage(S.pageCache, route)
      born == NewPromise(route, S)
  IN IF cachedPage # NoEntry
     THEN [S EXCEPT !.promises = Append(@, Settle(born, cachedPage))]
     ELSE LET S1 == [S EXCEPT !.promises = Append(@, born),
                              !.all = On(@, route, pid)]
          IN IF ShouldStartLoad(S1.loadingRoutes, route)
             THEN LET S2 == [S1 EXCEPT !.loadingRoutes = @ \cup {route},
                                       !.promises[pid].kicked = TRUE]
                  IN IF NODE_ENV = "production"
                     THEN [S2 EXCEPT !.depThens =
                             Append(@, [kind |-> "load", route |-> route, id |-> pid])]
                     ELSE LoadScript([S2 EXCEPT !.promises[pid].routeVar =
                                                  NormalizeRoute(route)],
                                     DevScriptUrl(NormalizeRoute(route)),
                                     NormalizeRoute(route))
             ELSE S1

\* ---------------------------------------------------------------- prefetch

Contains(s, sub) ==
  \E i \in 1..(Len(s) - Len(sub) + 1) : SubSeq(s, i, i + Len(sub) - 1) = sub

\* navigator.connection: absent, or { saveData, effectiveType }
NoConnection == [present |-> FALSE, saveData |-> FALSE, effectiveType |-> <<>>]
Connection(saveData, effectiveType) ==
  [present |-> TRUE, saveData |-> saveData, effectiveType |-> effectiveType]
Connections ==
  {NoConnection,
   Connection(FALSE, <<"4", "g">>),
   Connection(TRUE, <<"4", "g">>),
   Connection(FALSE, <<"s", "l", "o", "w", "-", "2", "g">>)}

SaveDataOnly(cn) == cn.present /\ cn.saveData

\* (cn = navigator.connection) && (cn.saveData || /2g/.test(cn.effectiveType))
SaveDataOr2g(cn) ==
  cn.present /\ (cn.saveData \/ Contains(cn.effectiveType, <<"2", "g">>))

\* a url variable that was never assigned
UndefinedUrl == <<Undefined>>
UrlText(url) == IF url = UndefinedUrl THEN UndefinedText ELSE url
Truthy(url) == url # UndefinedUrl /\ url # <<>>

\* the development prefetch URL of a route
DevPrefetchUrl(route) ==
  AssetPrefix \o NextDir \o StaticDir \o EncodeURIComponent(BuildId) \o <<"/">>
    \o PagesDir \o EncodeURI(GetAssetPath(NormalizeRoute(route)))
    \o (IF ModernBuild THEN ExtModuleJs ELSE ExtJs)

PrefetchUrl(route, isDependency) ==
  IF isDependency THEN route
  ELSE IF NODE_ENV # "production" THEN DevPrefetchUrl(route)
  ELSE UndefinedUrl

\* prefetch(route, isDependency) under navigator.connection = cn; parent is
\* the prefetch whose dependency walk made the call (0: a caller's own call)
Prefetch(S, route, isDependency, cn, parent) ==
  LET id == Len(S.prefetches) + 1
      url == PrefetchUrl(route, isDependency)
      walks == NODE_ENV = "production" /\ ~isDependency
      new == [route |-> route, isDependency |-> isDependency, parent |-> parent,
              cn |-> cn,
              st |-> "pending", link |-> 0, walk |-> "none", kids |-> <<>>]
  IN IF SaveDataOr2g(cn)
     THEN [S EXCEPT !.prefetches = Append(@, [new EXCEPT !.st = "fulfilled"])]
     ELSE IF QueryLink(S, RelPrefetch, UrlText(url))
     THEN [S EXCEPT !.prefetches = Append(@, new)]
     ELSE LET S1 == IF Truthy(url)
                    THEN AppendLink(S, url, RelPrefetch,
                                    IF EndsWith(url, ExtCss) THEN "style" ELSE "script")
                    ELSE S
          IN [S1 EXCEPT
                !.prefetches =
                  Append(@, [new EXCEPT
                               !.link = IF Truthy(url) THEN Len(S1.links) ELSE 0,
                               !.walk = IF walks THEN "queued" ELSE "none"]),
                !.depThens =
                  IF walks
                  THEN Append(@, [kind |-> "prefetch", route |-> route, id |-> id])
                  ELSE @]

\* urls.map((dependencyUrl) => this.prefetch(dependencyUrl, true))
RECURSIVE PrefetchEach(_, _, _, _)
PrefetchEach(S, urls, cn, parent) ==
  IF urls = <<>> THEN S
  ELSE PrefetchEach(Prefetch(S, Head(urls), TRUE, cn, parent), Tail(urls), cn, parent)

\* this.getDependencies(route).then((urls) => Promise.all(urls.map(...))),
\* once it runs, for prefetch id
PrefetchDependencies(S, route, id, cn) ==
  LET got == GetDependencies(S, route)
      S1 == PrefetchEach(got.S, got.deps, cn, id)
  IN [S1 EXCEPT !.prefetches[id].walk = "walked",
                !.prefetches[id].kids =
                  [i \in 1..(Len(S1.prefetches) - Len(got.S.prefetches)) |->
                     Len(got.S.prefetches) + i]]

\* Promise.all: rejected as soon as one input is, fulfilled once all are
PromiseAll(states) ==
  IF \E i \in 1..Len(states) : states[i] = "rejected" THEN "rejected"
  ELSE IF \A i \in 1..Len(states) : states[i] = "fulfilled" THEN "fulfilled"
  ELSE "pending"

\* the array prefetch hands to Promise.all, as the states of its entries
PrefetchInputs(S, id) ==
  LET p == S.prefetches[id]
  IN << IF p.link = 0 THEN "fulfilled" ELSE LinkPromise(S, p.link),
        IF p.walk = "none" THEN "fulfilled"
        ELSE IF p.walk = "queued" THEN "pending"
        ELSE PromiseAll([i \in 1..Len(p.kids) |-> S.prefetches[p.kids[i]].st]) >>

KeepPrefetchErrors(st) == st

\* .then(() => {}, () => {}): both handlers return nothing
SwallowPrefetchErrors(st) ==
  IF st = "fulfilled" THEN "fulfilled"
  ELSE IF st = "rejected" THEN "fulfilled"
  ELSE "pending"

\* ------------------------------------------------------------ prefetchData

RECURSIVE Pathname(_)
\* parse(href).pathname: up to the query or the fragment
Pathname(href) ==
  IF href = <<>> \/ Head(href) \in {"?", "#"} THEN <<>>
  ELSE <<Head(href)>> \o Pathname(Tail(href))

\* getHrefForSlug(path)
GetHrefForSlug(path) ==
  AssetPrefix \o NextDir \o DataDir \o BuildId \o GetAssetPath(path) \o ExtJson

RECURSIVE SplitOn(_, _)
\* String.prototype.split(sep), sep one character
SplitOn(s, sep) ==
  IF \A i \in 1..Len(s) : s[i] # sep THEN <<s>>
  ELSE LET i == CHOOSE i \in 1..Len(s) :
                  s[i] = sep /\ \A j \in 1..(i - 1) : s[j] # sep
       IN <<SubSeq(s, 1, i - 1)>> \o SplitOn(SubSeq(s, i + 1, Len(s)), sep)

RECURSIVE Join(_, _)
\* Array.prototype.join(sep)
Join(parts, sep) ==
  IF parts = <<>> THEN <<>>
  ELSE IF Len(parts) = 1 THEN parts[1]
  ELSE parts[1] \o sep \o Join(Tail(parts), sep)

\* String.prototype.replace(pattern, by), pattern a string: the first
\* occurrence only, and the string itself where there is none
ReplaceFirst(s, pattern, by) ==
  LET at == {i \in 1..(Len(s) - Len(pattern) + 1) :
               SubSeq(s, i, i + Len(pattern) - 1) = pattern}
  IN IF at = {} THEN s
     ELSE LET i == CHOOSE i \in at : \A j \in at : i <= j
          IN SubSeq(s, 1, i - 1) \o by \o SubSeq(s, i + Len(pattern), Len(s))

RECURSIVE DecodeURIComponent(_)
\* decodeURIComponent, on the escapes EncodeURIComponent produces
DecodeURIComponent(s) ==
  IF s = <<>> THEN <<>>
  ELSE IF Len(s) >= 3 /\ SubSeq(s, 1, 3) = <<"%", "2", "0">>
       THEN <<" ">> \o DecodeURIComponent(SubSeq(s, 4, Len(s)))
  ELSE IF Len(s) >= 3 /\ SubSeq(s, 1, 3) = <<"%", "2", "F">>
       THEN <<"/">> \o DecodeURIComponent(SubSeq(s, 4, Len(s)))
  ELSE IF Len(s) >= 3 /\ SubSeq(s, 1, 3) = <<"%", "3", "F">>
       THEN <<"?">> \o DecodeURIComponent(SubSeq(s, 4, Len(s)))
  ELSE IF Len(s) >= 3 /\ SubSeq(s, 1, 3) = <<"%", "5", "B">>
       THEN <<"[">> \o DecodeURIComponent(SubSeq(s, 4, Len(s)))
  ELSE IF Len(s) >= 3 /\ SubSeq(s, 1, 3) = <<"%", "5", "D">>
       THEN <<"]">> \o DecodeURIComponent(SubSeq(s, 4, Len(s)))
  ELSE <<Head(s)>> \o DecodeURIComponent(Tail(s))

\* a parameter's value: a string, or an array of strings
StringValue(s) == [array |-> FALSE, items |-> <<s>>]
ArrayValue(items) == [array |-> TRUE, items |-> items]
NoParams == [x \in {} |-> StringValue(<<>>)]

\* parse(href, true).query: the k=v pairs between "?" and "#", decoded
QueryText(href) ==
  LET marks == {i \in 1..Len(href) : href[i] = "?"}
  IN IF marks = {} THEN <<>>
     ELSE LET i == CHOOSE i \in marks : \A j \in marks : i <= j
          IN SplitOn(SubSeq(href, i + 1, Len(href)), "#")[1]

RECURSIVE QueryPairs(_)
QueryPairs(pairs) ==
  IF pairs = <<>> THEN NoParams
  ELSE LET kv == SplitOn(Head(pairs), "=")
           rest == QueryPairs(Tail(pairs))
       IN IF Head(pairs) = <<>> \/ kv[1] \in DOMAIN rest THEN rest
          ELSE Put(rest, DecodeURIComponent(kv[1]),
                   StringValue(DecodeURIComponent(Join(Tail(kv), <<"=">>))))

Query(href) ==
  IF QueryText(href) = <<>> THEN NoParams
  ELSE QueryPairs(SplitOn(QueryText(href), "&"))

\* the segments of a route, which starts with "/"
RouteSegments(route) == SplitOn(Tail(route), "/")

\* a segment "[...]" names a parameter
IsDynamicSegment(seg) == Len(seg) >= 3 /\ seg[1] = "[" /\ seg[Len(seg)] = "]"

\* isDynamicRoute(route): some segment is "[param]", "[...param]" or
\* "[[...param]]"
IsDynamicRoute(route) ==
  \E i \in 1..Len(RouteSegments(route)) : IsDynamicSegment(RouteSegments(route)[i])

\* the group a dynamic segment stands for: its name, whether it repeats
\* ("[...param]") and whether it is optional ("[[...param]]")
SegmentGroup(seg) ==
  LET inner == SubSeq(seg, 2, Len(seg) - 1)
      optional == Len(inner) >= 2 /\ inner[1] = "[" /\ inner[Len(inner)] = "]"
      name == IF optional THEN SubSeq(inner, 2, Len(inner) - 1) ELSE inner
      repeat == StartsWith(name, <<".", ".", ".">>)
  IN [name |-> IF repeat THEN SubSeq(name, 4, Len(name)) ELSE name,
      repeat |-> repeat,
      optional |-> optional]

RECURSIVE GroupsOf(_)
GroupsOf(segs) ==
  IF segs = <<>> THEN <<>>
  ELSE IF IsDynamicSegment(Head(segs))
       THEN <<SegmentGroup(Head(segs))>> \o GroupsOf(Tail(segs))
  ELSE GroupsOf(Tail(segs))

\* getRouteRegex(route).groups, in the order of the route's segments
DynamicGroups(route) == GroupsOf(RouteSegments(route))

NoMatch == [ok |-> FALSE, params |-> NoParams]
Matched(params) == [ok |-> TRUE, params |-> params]

\* the value the matcher gives a captured text: split at "/" when it holds
\* one, an array of one for a repeating group, a string otherwise
CapturedValue(text, repeat) ==
  IF Contains(text, <<"/">>)
  THEN ArrayValue([i \in 1..Len(SplitOn(text, "/")) |->
                     DecodeURIComponent(SplitOn(text, "/")[i])])
  ELSE IF repeat THEN ArrayValue(<<DecodeURIComponent(text)>>)
  ELSE StringValue(DecodeURIComponent(text))

RECURSIVE MatchSegments(_, _)
\* the route's regular expression run on what is left of the path: a static
\* segment matches itself, "[param]" one segment that is not empty,
\* "[...param]" the shortest text that lets the rest match, and
\* "[[...param]]" that or nothing; after the last segment one "/" may follow
MatchSegments(segs, rest) ==
  IF segs = <<>>
  THEN IF rest = <<>> \/ rest = <<"/">> THEN Matched(NoParams) ELSE NoMatch
  ELSE
    LET seg == Head(segs)
        g == SegmentGroup(seg)
        after == IF rest # <<>> THEN Tail(rest) ELSE <<>>
        slash == rest # <<>> /\ Head(rest) = "/"
        \* the lengths of a capture that let the rest of the route match
        fits == {k \in 1..Len(after) :
                   /\ g.repeat \/ ~Contains(SubSeq(after, 1, k), <<"/">>)
                   /\ MatchSegments(Tail(segs), SubSeq(after, k + 1, Len(after))).ok}
        k == CHOOSE k \in fits : \A j \in fits : k <= j
        tail == MatchSegments(Tail(segs), SubSeq(after, k + 1, Len(after)))
    IN IF ~IsDynamicSegment(seg)
       THEN IF StartsWith(rest, <<"/">> \o seg)
            THEN MatchSegments(Tail(segs),
                               SubSeq(rest, Len(seg) + 2, Len(rest)))
            ELSE NoMatch
       ELSE IF slash /\ fits # {}
            THEN Matched(Put(tail.params, g.name,
                             CapturedValue(SubSeq(after, 1, k), g.repeat)))
       ELSE IF g.optional THEN MatchSegments(Tail(segs), rest)
       ELSE NoMatch

\* getRouteMatcher(getRouteRegex(route))(pathname)
RouteMatcher(route, pathname) == MatchSegments(RouteSegments(route), pathname)

\* `[${repeat ? '...' : ''}${param}]`, in one more pair of brackets when the
\* group is optional
Placeholder(g) ==
  LET replaced == <<"[">> \o (IF g.repeat THEN <<".", ".", ".">> ELSE <<>>)
                    \o g.name \o <<"]">>
  IN IF g.optional THEN <<"[">> \o replaced \o <<"]">> ELSE replaced

ReplacementUnencoded(g, v) ==
  IF g.repeat THEN Join(v.items, <<"/">>) ELSE Join(v.items, <<",">>)

\* what replaces a group: a repeating group's values, each encoded, joined
\* with "/"; otherwise the encoded value (an array turns into its items
\* joined with ",")
Replacement(g, v) ==
  IF g.repeat
  THEN Join([i \in 1..Len(v.items) |-> EncodeURIComponent(v.items[i])], <<"/">>)
  ELSE EncodeURIComponent(Join(v.items, <<",">>))

RECURSIVE Interpolate(_, _, _)
\* Object.keys(dynamicGroups).every(...): each group in turn is replaced in
\* the route; a group the matches lack, or a replacement that leaves the
\* empty string, ends it with interpolatedRoute = ''
Interpolate(groups, dynamicMatches, interpolatedRoute) ==
  IF groups = <<>> THEN interpolatedRoute
  ELSE LET g == Head(groups)
           next == ReplaceFirst(interpolatedRoute, Placeholder(g),
                                Replacement(g, dynamicMatches[g.name]))
       IN IF g.name \notin DOMAIN dynamicMatches THEN <<>>
          ELSE IF next = <<>> THEN <<>>
          ELSE Interpolate(Tail(groups), dynamicMatches, next)

\* getDataHref(href, asPath): '' when a dynamic route's groups cannot all be
\* filled from the match of asPath or, where asPath does not match, from the
\* query of href
GetDataHref(href, asPath) ==
  LET route == NormalizeRoute(Pathname(href))
      matched == RouteMatcher(route, Pathname(asPath))
      dynamicMatches == IF matched.ok THEN matched.params ELSE Query(href)
      interpolatedRoute == Interpolate(DynamicGroups(route), dynamicMatches, route)
  IN IF IsDynamicRoute(route)
     THEN IF interpolatedRoute = <<>> THEN <<>>
          ELSE GetHrefForSlug(interpolatedRoute)
     ELSE GetHrefForSlug(route)

AlreadyPrefetchedNever(S, dataHref) == FALSE

\* document.querySelector(`link[rel="${relPrefetch}"][href^="${_dataHref}"]`)
AlreadyPrefetched(S, dataHref) == QueryLink(S, RelPrefetch, dataHref)

\* the callback prefetchData runs on the SSG manifest, for data promise id:
\* a falsy link (0) resolves the promise with that falsy value
PrefetchDataThen(S, id) ==
  LET d == dataPromises[id]
      dataHref == GetDataHref(d.href, d.asPath)
  IN IF d.route \in SsgManifest /\ Truthy(dataHref)
        /\ ~AlreadyPrefetched(S, dataHref)
     THEN AppendLink(S, dataHref, RelPrefetch, "fetch")
     ELSE S

\* a promise resolved with appendLink's promise follows it
FollowLink(st) == st

\* ------------------------------------------------------------------ inputs

InitialPages == {RouteA, RouteError}
LoadInputs == {RouteA, RouteASlash, RouteM}
DependencyInputs == {RouteA, RouteB}
RouteASlashes == <<"/", "a", "/", "/">>
TrailingInputs == {RouteA, RouteASlashes}
TrailingRegisterRoutes == {RouteA, RouteASlash}
LoadArguments == {<<>>, RouteNoSlash, RouteA, RouteASlash}
RegisterRoutes == {RouteA}
PrefetchRoutes == {RouteA, RouteM, RouteNoSlash}
PrefetchUrls == {DependencyUrls(BuildManifest[RouteA])[1]}
DataInputs ==
  {<<RouteA, RouteA>>, <<RouteM, RouteM>>, <<RouteNoSlash, RouteA>>,
   <<RouteP, <<"/", "x">> >>,
   <<RouteP \o <<"?", "p", "=", "y">>, RouteRoot>>,
   <<RouteP \o <<"?", "p", "=", "y">>, <<"/", "x">> >>,
   <<RouteP, RouteRoot>>,
   <<RouteS, <<"/", "x", "/", "y", " ">> >>}
HotStatuses == {"idle", "check"}

\* the strings normalizeRoute and getAssetPath are called with: up to
\* MaxTokens of these pieces, one after the other
RouteTokens == {<<"/">>, RouteA, IndexPath, <<"f", "o", "o">>}

RECURSIVE TokenStrings(_)
TokenStrings(n) ==
  IF n = 0 THEN {<<>>}
  ELSE TokenStrings(n - 1)
         \cup {s \o tk : s \in TokenStrings(n - 1), tk \in RouteTokens}

RouteStrings == TokenStrings(MaxTokens)

\* -------------------------------------------------------------------- Init

\* new PageLoader(buildId, assetPrefix, initialPage), and the environment
Init ==
  /\ NODE_ENV \in {"production", "development"}
  /\ pageCache = EmptyMap
  /\ all = EmptyMap
  /\ \E initialPage \in InitialPages :
       loadingRoutes =
         {RouteApp} \cup (IF initialPage # RouteError THEN {initialPage} ELSE {})
  /\ promises = <<>>
  /\ buildManifestReady \in (IF NODE_ENV = "production" THEN BOOLEAN ELSE {FALSE})
  /\ depThens = <<>>
  /\ ssgManifestReady \in BOOLEAN
  /\ ssgThens = <<>>
  /\ scripts = <<>>
  /\ links = <<>>
  /\ prefetches = <<>>
  /\ dataPromises = <<>>
  /\ hotStatus \in (IF NODE_ENV = "production" THEN {"idle"} ELSE HotStatuses)
  /\ statusHandlers = <<>>
  /\ calls = [registers |-> 0, statuses |-> 0]
  /\ registered = EmptyMap
  /\ call = NoCall

\* ----------------------------------------------------------------- actions

Environment == <<NODE_ENV, buildManifestReady, ssgManifestReady, hotStatus>>
DataState == <<ssgThens, dataPromises>>
LoaderState ==
  <<pageCache, loadingRoutes, all, promises, depThens, scripts, links,
    prefetches, statusHandlers, registered>>

\* promise reactions run before the next event of the document
PrefetchSettles(id) ==
  /\ prefetches[id].st = "pending"
  /\ SwallowPrefetchErrors(PromiseAll(PrefetchInputs(Cur, id))) # "pending"

DataSettles(id) ==
  /\ dataPromises[id].st = "pending"
  /\ dataPromises[id].link # 0
  /\ LinkPromise(Cur, dataPromises[id].link) # "pending"

NoReactionPending ==
  /\ ~(buildManifestReady /\ depThens # <<>>)
  /\ ~(ssgManifestReady /\ ssgThens # <<>>)
  /\ \A id \in 1..Len(prefetches) : ~PrefetchSettles(id)
  /\ \A id \in 1..Len(dataPromises) : ~DataSettles(id)

\* a caller calls loadPage(raw); normalizeRoute's throw leaves everything as it is
LoadPageCall(raw) ==
  /\ Len(promises) < MaxLoads
  /\ IF NormalizeRoute(raw) = Thrown
     THEN /\ UNCHANGED LoaderState
          /\ call' = Threw("loadPage", raw)
     ELSE /\ Become(LoadPage(Cur, NormalizeRoute(raw)))
          /\ UNCHANGED call
  /\ UNCHANGED <<DataState, Environment, calls>>

\* the page's code calls registerPage(route, fn)
RegisterPageCall(route, fn) ==
  /\ calls.registers < MaxRegisters
  /\ Become(RegisterPage(Cur, route, fn))
  /\ calls' = [calls EXCEPT !.registers = @ + 1]
  /\ UNCHANGED <<DataState, Environment, call>>

\* window.__BUILD_MANIFEST_CB()
BuildManifestCB ==
  /\ NODE_ENV = "production"
  /\ ~buildManifestReady
  /\ NoReactionPending
  /\ buildManifestReady' = TRUE
  /\ UNCHANGED <<LoaderState, DataState, NODE_ENV, call, ssgManifestReady, hotStatus, calls>>

\* the next callback queued on promisedBuildManifest runs, under
\* navigator.connection = cn
RunDepThen(cn) ==
  /\ buildManifestReady
  /\ depThens # <<>>
  /\ LET job == Head(depThens)
         S == [Cur EXCEPT !.depThens = Tail(@)]
     IN Become(IF job.kind = "load"
               THEN LoadDependencies(S, job.route)
               ELSE PrefetchDependencies(S, job.route, job.id, cn))
  /\ UNCHANGED <<DataState, Environment, call, calls>>

\* a script element fires its error event
ScriptError(i) ==
  /\ scripts[i].st = "pending"
  /\ NoReactionPending
  /\ Become(ScriptOnError([Cur EXCEPT !.scripts[i].st = "error"], i))
  /\ UNCHANGED <<DataState, Environment, call, calls>>

\* a script element executes; a page's script registers the page
ScriptRun(i, registers, fn) ==
  /\ scripts[i].st = "pending"
  /\ NoReactionPending
  /\ LET S == [Cur EXCEPT !.scripts[i].st = "loaded"]
     IN Become(IF registers THEN RegisterPage(S, scripts[i].route, fn) ELSE S)
  /\ UNCHANGED <<DataState, Environment, call, calls>>

\* a link element fires its load or its error event
LinkEvent(i, st) ==
  /\ links[i].st = "pending"
  /\ NoReactionPending
  /\ links' = [links EXCEPT ![i].st = st]
  /\ UNCHANGED <<pageCache, loadingRoutes, all, promises, depThens, scripts,
                 prefetches, statusHandlers, registered, DataState, Environment, call,
                 calls>>

\* the hot-reload runtime changes its status and calls the status handlers
HotStatusChange(status) ==
  /\ NODE_ENV # "production"
  /\ calls.statuses < MaxStatusChanges
  /\ status # hotStatus
  /\ NoReactionPending
  /\ hotStatus' = status
  /\ Become(CallStatusHandlers(Cur, status, 1))
  /\ calls' = [calls EXCEPT !.statuses = @ + 1]
  /\ UNCHANGED <<DataState, NODE_ENV, call, buildManifestReady, ssgManifestReady>>

\* a caller calls prefetch(route, isDependency) under navigator.connection =
\* cn; normalizeRoute's throw leaves everything as it is
PrefetchCall(route, isDependency, cn) ==
  /\ Cardinality({i \in 1..Len(prefetches) : prefetches[i].parent = 0}) < MaxPrefetches
  /\ IF ~SaveDataOr2g(cn) /\ ~isDependency /\ NODE_ENV # "production"
        /\ NormalizeRoute(route) = Thrown
     THEN /\ UNCHANGED LoaderState
          /\ call' = Threw("prefetch", route)
     ELSE /\ Become(Prefetch(Cur, route, isDependency, cn, 0))
          /\ UNCHANGED call
  /\ UNCHANGED <<DataState, Environment, calls>>

\* the promise prefetch returned settles
PrefetchSettle(id) ==
  /\ PrefetchSettles(id)
  /\ prefetches' =
       [prefetches EXCEPT
          ![id].st = SwallowPrefetchErrors(PromiseAll(PrefetchInputs(Cur, id)))]
  /\ UNCHANGED <<pageCache, loadingRoutes, all, promises, depThens, scripts,
                 links, statusHandlers, registered, DataState, Environment, call, calls>>

\* a caller calls prefetchData(href, asPath); normalizeRoute's throw leaves
\* everything as it is
PrefetchDataCall(href, asPath) ==
  /\ Len(dataPromises) < MaxDataPrefetches
  /\ IF NormalizeRoute(Pathname(href)) = Thrown
     THEN /\ UNCHANGED DataState
          /\ call' = Threw("prefetchData", href)
     ELSE /\ UNCHANGED call
          /\ dataPromises' =
               Append(dataPromises,
                      [href |-> href, asPath |-> asPath,
                       route |-> NormalizeRoute(Pathname(href)),
                       st |-> "pending", link |-> 0])
          /\ ssgThens' = Append(ssgThens, Len(dataPromises) + 1)
  /\ UNCHANGED <<LoaderState, Environment, calls>>

\* window.__SSG_MANIFEST_CB()
SsgManifestCB ==
  /\ ~ssgManifestReady
  /\ NoReactionPending
  /\ ssgManifestReady' = TRUE
  /\ UNCHANGED <<LoaderState, DataState, NODE_ENV, call, buildManifestReady, hotStatus, calls>>

\* the next callback queued on promisedSsgManifest runs
RunSsgThen ==
  /\ ssgManifestReady
  /\ ssgThens # <<>>
  /\ LET id == Head(ssgThens)
         S == PrefetchDataThen(Cur, id)
     IN /\ Become(S)
        /\ dataPromises' =
             IF Len(S.links) > Len(links)
             THEN [dataPromises EXCEPT ![id].link = Len(S.links)]
             ELSE [dataPromises EXCEPT ![id].st = "fulfilled"]
  /\ ssgThens' = Tail(ssgThens)
  /\ UNCHANGED <<Environment, call, calls>>

\* the promise prefetchData returned follows its link's promise
DataSettle(id) ==
  /\ DataSettles(id)
  /\ dataPromises' =
       [dataPromises EXCEPT ![id].st = FollowLink(LinkPromise(Cur, dataPromises[id].link))]
  /\ UNCHANGED <<LoaderState, ssgThens, Environment, call, calls>>

\* a caller calls normalizeRoute(route)
NormalizeRouteCall(route) ==
  /\ call' = Returned("normalizeRoute", route, NormalizeRoute(route))
  /\ UNCHANGED <<LoaderState, DataState, Environment, calls>>

\* a caller calls getAssetPath(route)
GetAssetPathCall(route) ==
  /\ call' = Returned("getAssetPath", route, GetAssetPath(route))
  /\ UNCHANGED <<LoaderState, DataState, Environment, calls>>

\* ---------------------------------------------------------- specifications

\* loading and registering pages
NextLoad ==
  \/ \E raw \in LoadInputs : LoadPageCall(raw)
  \/ \E route \in RegisterRoutes, fn \in RegFns : RegisterPageCall(route, fn)
  \/ BuildManifestCB
  \/ RunDepThen(NoConnection)
  \/ \E i \in 1..Len(scripts) : ScriptError(i)
  \/ \E i \in 1..Len(scripts), registers \in BOOLEAN, fn \in RegFns :
       ScriptRun(i, registers, fn)
  \/ \E i \in 1..Len(links), st \in {"loaded", "error"} : LinkEvent(i, st)
  \/ \E status \in HotStatuses : HotStatusChange(status)

InitLoad == Init /\ ~ssgManifestReady

SpecLoad == InitLoad /\ [][NextLoad]_vars

\* prefetching, beside the loading of pages
NextPrefetch ==
  \/ \E route \in PrefetchRoutes, cn \in Connections : PrefetchCall(route, FALSE, cn)
  \/ \E url \in PrefetchUrls, cn \in Connections : PrefetchCall(url, TRUE, cn)
  \/ \E id \in 1..Len(prefetches) : PrefetchSettle(id)
  \/ \E cn \in Connections : RunDepThen(cn)
  \/ BuildManifestCB
  \/ \E i \in 1..Len(links), st \in {"loaded", "error"} : LinkEvent(i, st)
  \/ \E raw \in LoadInputs : Len(promises) < MaxLoadsBesidePrefetch /\ LoadPageCall(raw)

InitPrefetch == Init /\ ~ssgManifestReady /\ hotStatus = "idle"

SpecPrefetch == InitPrefetch /\ [][NextPrefetch]_vars

\* prefetching data files
NextData ==
  \/ \E input \in DataInputs : PrefetchDataCall(input[1], input[2])
  \/ SsgManifestCB
  \/ RunSsgThen
  \/ \E id \in 1..Len(dataPromises) : DataSettle(id)
  \/ \E i \in 1..Len(links), st \in {"loaded", "error"} : LinkEvent(i, st)

SpecData == Init /\ [][NextData]_vars

\* loading pages that share dependencies, in production
NextDeps ==
  \/ \E raw \in DependencyInputs : LoadPageCall(raw)
  \/ BuildManifestCB
  \/ RunDepThen(NoConnection)
  \/ \E i \in 1..Len(scripts) : ScriptError(i)
  \/ \E i \in 1..Len(scripts), registers \in BOOLEAN, fn \in RegFns :
       ScriptRun(i, registers, fn)
  \/ \E i \in 1..Len(links), st \in {"loaded", "error"} : LinkEvent(i, st)

InitDeps == Init /\ NODE_ENV = "production" /\ ~ssgManifestReady

SpecDeps == InitDeps /\ [][NextDeps]_vars

\* script element i fires its error event, or executes as the page's own
\* script and registers the page
ScriptEvent(i) ==
  /\ i \in 1..Len(scripts)
  /\ \/ ScriptError(i)
     \/ \E fn \in RegFns : ScriptRun(i, TRUE, fn)

\* loading pages in production, where the build manifest arrives, promise
\* callbacks run, and every script element fires its error event or executes
NextLive ==
  \/ \E raw \in DependencyInputs : LoadPageCall(raw)
  \/ BuildManifestCB
  \/ RunDepThen(NoConnection)
  \/ \E i \in 1..Len(scripts) : ScriptEvent(i)
  \/ \E i \in 1..Len(links), st \in {"loaded", "error"} : LinkEvent(i, st)

Fairness ==
  /\ WF_vars(BuildManifestCB)
  /\ WF_vars(RunDepThen(NoConnection))
  /\ \A i \in 1..MaxScripts : WF_vars(ScriptEvent(i))

\* the initial page is '/_error': the pages loaded are not in the initial HTML
InitLive == InitDeps /\ loadingRoutes = {RouteApp}

SpecLive == InitLive /\ [][NextLive]_vars /\ Fairness

\* loading and registering pages under routes that end in slashes
NextTrailing ==
  \/ \E raw \in TrailingInputs : LoadPageCall(raw)
  \/ \E route \in TrailingRegisterRoutes, fn \in RegFns : RegisterPageCall(route, fn)
  \/ BuildManifestCB
  \/ RunDepThen(NoConnection)
  \/ \E i \in 1..Len(scripts) : ScriptError(i)
  \/ \E i \in 1..Len(links), st \in {"loaded", "error"} : LinkEvent(i, st)

InitTrailing == Init /\ ~ssgManifestReady /\ hotStatus = "idle"

SpecTrailing == InitTrailing /\ [][NextTrailing]_vars

\* the functions on routes, called with every string of RouteStrings, and
\* loadPage called with arguments that are and are not routes
NextRoutes ==
  \/ \E route \in RouteStrings : NormalizeRouteCall(route)
  \/ \E route \in RouteStrings : GetAssetPathCall(route)
  \/ \E raw \in LoadArguments : LoadPageCall(raw)

InitRoutes ==
  /\ Init
  /\ ~buildManifestReady
  /\ ~ssgManifestReady
  /\ hotStatus = "idle"

SpecRoutes == InitRoutes /\ [][NextRoutes]_vars

\* ------------------------------------------------------------------ claims

\* the promise a loadPage step has just returned
Newest == promises'[Len(promises')]
LoadPageStep == Len(promises') = Len(promises) + 1

\* a loadPage step that subscribes nothing, marks nothing and starts nothing
NothingStarted ==
  /\ all' = all
  /\ loadingRoutes' = loadingRoutes
  /\ depThens' = depThens
  /\ scripts' = scripts

SameOutcome(p, q) ==
  /\ p.st = q.st
  /\ p.error = q.error
  /\ p.page = q.page
  /\ p.mod = q.mod

\* C1, first half: among the waiters subscribed for a route since its last
\* event, when the first found the route not loading, exactly one call started
\* the dependency resolution
C1_StartedOnce ==
  \A route \in DOMAIN all :
    LET waiters == all[route]
    IN (Len(waiters) >= 2 /\ ~promises[waiters[1]].bornLoading)
         => Cardinality({k \in 1..Len(waiters) : promises[waiters[k]].kicked}) = 1

\* C1, second half: when one of several waiters of a route settles, all of
\* them settle in that step, with the same outcome
C1_SettleAlike ==
  \A route \in DOMAIN all :
    LET waiters == all[route]
    IN (Len(waiters) >= 2
          /\ \E k \in 1..Len(waiters) : promises'[waiters[k]].st # "pending")
         => \A k \in 1..Len(waiters) :
              /\ promises'[waiters[k]].st # "pending"
              /\ SameOutcome(promises'[waiters[k]], promises'[waiters[1]])

\* C1: N >= 2 loadPage calls for an uncached route that is not loading, made
\* before any event for the route, start dependency resolution exactly once
\* and settle with the same outcome
C1_OneLoadPerRoute == [](C1_StartedOnce) /\ [][C1_SettleAlike]_vars

C1_Witness ==
  \E i, j \in 1..Len(promises) :
    /\ i < j
    /\ promises[i].route = promises[j].route
    /\ promises[i].kicked
    /\ ~promises[j].kicked /\ ~promises[j].bornCached
    /\ promises[i].st = "rejected"
    /\ promises[j].st = "rejected"

\* C2 as stated: once a loadPage promise of a route was rejected with a
\* PageLoadError, every later loadPage of the route rejects at once and
\* subscribes nothing, marks nothing and starts nothing
C2_FailuresCached ==
  [][(LoadPageStep
        /\ \E i \in 1..Len(promises) :
             /\ promises[i].route = Newest.route
             /\ promises[i].st = "rejected"
             /\ promises[i].error.code = "PAGE_LOAD_ERROR")
       => (Newest.st = "rejected" /\ NothingStarted)]_vars

\* C2 as amended: a PageLoadError (a script's error event, a route the
\* manifest lacks) rejects the current waiters and is not cached; only the
\* failure of a loader function is cached, and while pageCache holds it every
\* loadPage of the route rejects with it at once and subscribes nothing, marks
\* nothing and starts nothing
C2_OnlyLoaderFailuresCached ==
  [][/\ (LoadPageStep
           /\ Newest.route \in DOMAIN pageCache
           /\ pageCache[Newest.route].error # NoError)
          => /\ Newest.st = "rejected"
             /\ Newest.error = pageCache[Newest.route].error
             /\ NothingStarted
     /\ (\E i \in 1..Len(promises) :
           /\ promises[i].st = "pending"
           /\ promises'[i].st = "rejected"
           /\ promises'[i].error.code = "PAGE_LOAD_ERROR")
          => pageCache' = pageCache]_vars

C2_Witness ==
  /\ \E i \in 1..Len(promises) :
       /\ promises[i].st = "rejected"
       /\ promises[i].error.code = "PAGE_LOAD_ERROR"
       /\ promises[i].route \notin DOMAIN pageCache
  /\ \E j \in 1..Len(promises) :
       /\ promises[j].bornCached
       /\ promises[j].st = "rejected"
       /\ promises[j].error = ThrownByRegFn

\* C3 as stated: a pageCache entry, once created, keeps its value
C3_FirstWriterWins ==
  [][\A route \in DOMAIN pageCache :
       route \in DOMAIN pageCache' /\ pageCache'[route] = pageCache[route]]_vars

\* C3 as amended: pageCache holds, for exactly the routes that were
\* registered, the outcome of the route's latest registration (the last
\* writer wins, and nothing else writes or removes an entry)
C3_LastWriterWins ==
  /\ DOMAIN pageCache = DOMAIN registered
  /\ \A route \in DOMAIN registered : pageCache[route] = registered[route].entry

C3_Witness ==
  \E i \in 1..Len(promises) :
    /\ promises[i].st = "rejected"
    /\ promises[i].error = ThrownByRegFn
    /\ registered[promises[i].route].runs >= 2
    /\ pageCache[promises[i].route].error = NoError

\* C4: no route is both in loadingRoutes and in pageCache
C4_LoadingOrCached == loadingRoutes \cap DOMAIN pageCache = {}

\* C5: loadPage of a cached route settles at once from the entry and leaves
\* the listeners, loadingRoutes, the document and the dependency callbacks
\* as they were
C5_CachedLoadTouchesNothing ==
  [][(LoadPageStep /\ Newest.route \in DOMAIN pageCache)
       => /\ SameOutcome(Newest,
                         [st |-> IF pageCache[Newest.route].error # NoError
                                 THEN "rejected" ELSE "resolved",
                          error |-> pageCache[Newest.route].error,
                          page |-> pageCache[Newest.route].page,
                          mod |-> pageCache[Newest.route].mod])
          /\ NothingStarted
          /\ links' = links]_vars

C5_Witness ==
  \E i \in 1..Len(promises) :
    /\ promises[i].bornCached
    /\ promises[i].st = "resolved"
    /\ promises[i].page = "PageA"
    /\ promises[i].fired = 0

\* a step in which register() ran for the route
Registers(route) ==
  /\ route \in DOMAIN registered'
  /\ registered'[route].runs > Get(registered, route, [runs |-> 0]).runs

\* C6: when a route is registered, every waiter subscribed for it is settled
\* by that broadcast, has been invoked exactly once, is unsubscribed, and the
\* route is no longer in loadingRoutes
C6_RegistrationNotifiesAll ==
  [][\A route \in DOMAIN registered' :
       Registers(route)
         => /\ \A k \in 1..Len(Get(all, route, <<>>)) :
                 /\ promises'[all[route][k]].st # "pending"
                 /\ promises'[all[route][k]].fired = 1
            /\ Get(all', route, <<>>) = <<>>
            /\ route \notin loadingRoutes']_vars

\* the dependency callback of loadPage is about to run for a route the
\* manifest lacks
MissingRouteStep ==
  /\ depThens # <<>>
  /\ depThens' = Tail(depThens)
  /\ Head(depThens).kind = "load"
  /\ Head(depThens).route \notin DOMAIN BuildManifest

\* C7: for a route the manifest lacks, getDependencies rejects every
\* subscribed waiter with a PAGE_LOAD_ERROR and resolves to the empty list, so
\* that nothing is injected
C7_MissingRouteRejects ==
  [][MissingRouteStep
       => /\ \A k \in 1..Len(Get(all, Head(depThens).route, <<>>)) :
               LET p == promises'[all[Head(depThens).route][k]]
               IN p.st = "rejected" /\ p.error.code = "PAGE_LOAD_ERROR"
          /\ GetDependencies(Cur, Head(depThens).route).deps = <<>>
          /\ scripts' = scripts
          /\ links' = links]_vars

C7_Witness ==
  /\ NODE_ENV = "production"
  /\ \E i \in 1..Len(promises) :
       /\ promises[i].route = RouteM
       /\ promises[i].st = "rejected"
       /\ promises[i].error = PageLoadError(RouteM)
       /\ promises[i].fired = 1
  /\ scripts = <<>>
  /\ links = <<>>

\* C8: no step of a prefetch (the call, its dependency walk, its settling)
\* changes pageCache or loadingRoutes or settles a loadPage promise
C8_PrefetchIndependent ==
  [][prefetches' # prefetches
       => /\ pageCache' = pageCache
          /\ loadingRoutes' = loadingRoutes
          /\ promises' = promises]_vars

\* C9: the promise prefetch returns never rejects
C9_PrefetchNeverRejects ==
  \A id \in 1..Len(prefetches) : prefetches[id].st \in {"pending", "fulfilled"}

C9_Witness ==
  \E id \in 1..Len(prefetches) :
    /\ prefetches[id].st = "fulfilled"
    /\ prefetches[id].link # 0
    /\ links[prefetches[id].link].st = "error"

\* C10: the promise prefetchData returns does not reject when its link fires
\* its error event
C10_DataPrefetchNeverRejects ==
  \A id \in 1..Len(dataPromises) :
    (dataPromises[id].link # 0 /\ links[dataPromises[id].link].st = "error")
      => dataPromises[id].st # "rejected"

\* the prefetches a step adds
NewPrefetches == (Len(prefetches) + 1)..Len(prefetches')

\* the connection asks for no prefetching: Save-Data, or a 2g effective type
AsksNoPrefetch(cn) ==
  cn.present /\ (cn.saveData \/ Contains(cn.effectiveType, <<"2", "g">>))

\* C11: under Save-Data or 2g, prefetch(route, isDependency) returns a
\* promise that is already resolved, injects nothing and queues no dependency
\* resolution; and a caller's own such call leaves the document, the
\* dependency callbacks, the registry, the loadPage promises, pageCache and
\* loadingRoutes as they were
C11_NoPrefetchOnSlowOrSaveData ==
  [][\A id \in NewPrefetches :
       AsksNoPrefetch(prefetches'[id].cn)
         => /\ prefetches'[id].st = "fulfilled"
            /\ prefetches'[id].link = 0
            /\ prefetches'[id].walk = "none"
            /\ prefetches'[id].parent = 0
                 => /\ Len(prefetches') = Len(prefetches) + 1
                    /\ links' = links
                    /\ scripts' = scripts
                    /\ depThens' = depThens
                    /\ all' = all
                    /\ promises' = promises
                    /\ pageCache' = pageCache
                    /\ loadingRoutes' = loadingRoutes]_vars

C11_Witness ==
  /\ \E id \in 1..Len(prefetches) :
       /\ prefetches[id].cn.present
       /\ ~prefetches[id].cn.saveData
       /\ Contains(prefetches[id].cn.effectiveType, <<"2", "g">>)
       /\ prefetches[id].parent = 0
       /\ ~prefetches[id].isDependency
       /\ prefetches[id].st = "fulfilled"
  /\ NODE_ENV = "development"
  /\ links = <<>>

\* a step that appends a link element
InjectsLink == Len(links') > Len(links)

\* C12, the condition: a step of prefetchData that injects a link injects
\* one, with the SSG manifest resolved, for a call whose normalized route the
\* manifest holds, with the call's data href, which is not empty and which no
\* prefetch link of the document starts with
C12_InjectsOnlyWhen ==
  InjectsLink
    => /\ Len(links') = Len(links) + 1
       /\ ssgManifestReady
       /\ ssgThens # <<>>
       /\ LET d == dataPromises[Head(ssgThens)]
              new == links'[Len(links')]
          IN /\ NormalizeRoute(Pathname(d.href)) \in SsgManifest
             /\ new.href = GetDataHref(d.href, d.asPath)
             /\ new.href # <<>>
             /\ new.rel = RelPrefetch
             /\ ~\E i \in 1..Len(links) :
                   links[i].rel = RelPrefetch /\ StartsWith(links[i].href, new.href)

\* C12, the consequence: no two links have the same href, and there is no
\* link while the SSG manifest is not available
C12_OneLinkPerHref ==
  /\ \A i, j \in 1..Len(links) : i # j => links[i].href # links[j].href
  /\ links # <<>> => ssgManifestReady

\* C12: prefetchData injects a data prefetch link only for a route of the
\* resolved SSG manifest, with a data href that is not empty and not yet
\* prefetched; so at most one link per data href is ever injected, and none
\* before the manifest is available
C12_DataLinkOnlyOnce == [](C12_OneLinkPerHref) /\ [][C12_InjectsOnlyWhen]_vars

C12_Witness ==
  /\ Len(dataPromises) = 2
  /\ dataPromises[1].href = RouteA
  /\ dataPromises[2].href = RouteA
  /\ ssgThens = <<>>
  /\ Len(links) = 1
  /\ dataPromises[1].link = 1
  /\ dataPromises[2].link = 0
  /\ dataPromises[2].st = "fulfilled"

\* C13: normalizeRoute is idempotent on every input that starts with "/":
\* normalizing its result again gives the result
C13_NormalizeRouteIdempotent ==
  (call.fn = "normalizeRoute" /\ StartsWith(call.arg, <<"/">>))
    => NormalizeRoute(call.ret) = call.ret

\* C14, the function: normalizeRoute throws exactly for the inputs that do
\* not start with "/", the empty string among them
C14_ThrowsIff ==
  call.fn = "normalizeRoute"
    => (call.ret = Thrown <=> ~StartsWith(call.arg, <<"/">>))

\* C14, loadPage: no promise was made for an argument that is no route
C14_PromisesOfRoutes ==
  \A i \in 1..Len(promises) : StartsWith(promises[i].route, <<"/">>)

\* C14, loadPage: a call that throws has an argument that does not start
\* with "/", and adds no listener, marks no route and injects no element
C14_ThrowTouchesNothing ==
  (call' # call /\ call'.fn = "loadPage")
    => /\ call'.ret = Thrown
       /\ ~StartsWith(call'.arg, <<"/">>)
       /\ all' = all
       /\ loadingRoutes' = loadingRoutes
       /\ promises' = promises
       /\ depThens' = depThens
       /\ scripts' = scripts
       /\ links' = links
       /\ pageCache' = pageCache

\* C14: normalizeRoute throws if and only if its input does not start with
\* "/"; loadPage throws it before it adds a listener, marks a route as
\* loading or injects an element
C14_InvalidRouteThrows ==
  [](C14_ThrowsIff /\ C14_PromisesOfRoutes) /\ [][C14_ThrowTouchesNothing]_vars

C14_Witness ==
  /\ call = Threw("loadPage", <<>>)
  /\ Len(promises) = 1
  /\ promises[1].route = RouteA
  /\ promises[1].st = "pending"
  /\ Len(scripts) = 1

\* C15: getAssetPath gives "/index" for "/", "/index" followed by the route
\* for a route that is "/index" or begins with "/index/", and the route
\* itself for every other route
C15_AssetPathMapping ==
  call.fn = "getAssetPath"
    => call.ret =
         IF call.arg = <<"/">> THEN <<"/", "i", "n", "d", "e", "x">>
         ELSE IF \/ call.arg = <<"/", "i", "n", "d", "e", "x">>
                 \/ /\ Len(call.arg) >= 7
                    /\ SubSeq(call.arg, 1, 7) = <<"/", "i", "n", "d", "e", "x", "/">>
              THEN <<"/", "i", "n", "d", "e", "x">> \o call.arg
         ELSE call.arg

C15_Witness ==
  /\ call.fn = "getAssetPath"
  /\ call.arg = <<"/", "i", "n", "d", "e", "x", "/", "f", "o", "o">>
  /\ call.ret = <<"/", "i", "n", "d", "e", "x",
                  "/", "i", "n", "d", "e", "x", "/", "f", "o", "o">>

\* the route a dynamic route's segments give when each parameter segment is
\* filled with its value from the mapping, encoded, a repeated group's values
\* joined with "/"
RECURSIVE FilledRoute(_, _)
FilledRoute(segs, mapping) ==
  IF segs = <<>> THEN <<>>
  ELSE LET seg == Head(segs)
           g == SegmentGroup(seg)
           items == mapping[g.name].items
           filled ==
             IF ~IsDynamicSegment(seg) THEN seg
             ELSE IF g.repeat
             THEN Join([i \in 1..Len(items) |-> EncodeURIComponent(items[i])], <<"/">>)
             ELSE EncodeURIComponent(items[1])
       IN <<"/">> \o filled \o FilledRoute(Tail(segs), mapping)

\* the callback of prefetchData is about to run for a dynamic route of the
\* SSG manifest
DynamicDataStep ==
  /\ ssgThens # <<>>
  /\ ssgThens' = Tail(ssgThens)
  /\ dataPromises[Head(ssgThens)].route \in SsgManifest
  /\ IsDynamicRoute(dataPromises[Head(ssgThens)].route)

\* C16: for a dynamic route the values come from the match of the route
\* against asPath when it matches and from the query of href otherwise; when
\* a group of the route has no value no link is injected, and otherwise the
\* data href is that of the route with every group filled with its encoded
\* value
C16_DynamicDataHref ==
  [][DynamicDataStep
       => LET id == Head(ssgThens)
              d == dataPromises[id]
              matched == RouteMatcher(d.route, Pathname(d.asPath))
              mapping == IF matched.ok THEN matched.params ELSE Query(d.href)
              groups == DynamicGroups(d.route)
              wanted ==
                <<"/", "_", "n", "e", "x", "t", "/", "d", "a", "t", "a", "/">>
                  \o BuildId
                  \o GetAssetPath(FilledRoute(RouteSegments(d.route), mapping))
                  \o <<".", "j", "s", "o", "n">>
          IN IF \E k \in 1..Len(groups) : groups[k].name \notin DOMAIN mapping
             THEN /\ links' = links
                  /\ dataPromises'[id].link = 0
                  /\ dataPromises'[id].st = "fulfilled"
             ELSE \/ /\ Len(links') = Len(links) + 1
                     /\ links'[Len(links')].href = wanted
                     /\ dataPromises'[id].link = Len(links')
                  \/ /\ links' = links
                     /\ \E i \in 1..Len(links) : StartsWith(links[i].href, wanted)]_vars

C16_Witness ==
  /\ \E i \in 1..Len(dataPromises) :
       /\ dataPromises[i].href = RouteP
       /\ dataPromises[i].asPath = RouteRoot
       /\ dataPromises[i].st = "fulfilled"
       /\ dataPromises[i].link = 0
  /\ \E j \in 1..Len(dataPromises) :
       /\ dataPromises[j].href = RouteS
       /\ dataPromises[j].link # 0
       /\ links[dataPromises[j].link].href =
            <<"/", "_", "n", "e", "x", "t", "/", "d", "a", "t", "a", "/", "B",
              "/", "x", "/", "y", "%", "2", "0", ".", "j", "s", "o", "n">>

\* C17, the state: no two script elements have the same src and no two
\* stylesheet links the same href
C17_NoDuplicateElements ==
  /\ \A i, j \in 1..Len(scripts) : i # j => scripts[i].src # scripts[j].src
  /\ \A i, j \in 1..Len(links) :
       (i # j /\ links[i].rel = "stylesheet" /\ links[j].rel = "stylesheet")
         => links[i].href # links[j].href

\* C17, the step: an element is injected only for a dependency URL of the
\* manifest that no script (stylesheet) of the document starts with
C17_SkipsWhatIsThere ==
  /\ \A k \in (Len(scripts) + 1)..Len(scripts') :
       /\ \E r \in DOMAIN BuildManifest, n \in 1..2 :
            scripts'[k].src = <<"/", "_", "n", "e", "x", "t", "/">> \o BuildManifest[r][n]
       /\ ~\E i \in 1..(k - 1) : StartsWith(scripts'[i].src, scripts'[k].src)
  /\ \A k \in (Len(links) + 1)..Len(links') :
       /\ \E r \in DOMAIN BuildManifest, n \in 1..2 :
            links'[k].href = <<"/", "_", "n", "e", "x", "t", "/">> \o BuildManifest[r][n]
       /\ ~\E i \in 1..(k - 1) :
            links'[i].rel = "stylesheet" /\ StartsWith(links'[i].href, links'[k].href)

\* C17: in production every dependency URL of the manifest is injected as a
\* script or a stylesheet at most once, a dependency being skipped when a
\* script (stylesheet) whose URL starts with it is in the document
C17_DependencyInjectedOnce ==
  [](C17_NoDuplicateElements) /\ [][C17_SkipsWhatIsThere]_vars

C17_Witness ==
  /\ Len(promises) = 2
  /\ promises[1].route = RouteA
  /\ promises[2].route = RouteB
  /\ depThens = <<>>
  /\ Len(scripts) = 2
  /\ scripts[1].route = RouteA
  /\ scripts[2].route = RouteB
  /\ Len(links) = 1

\* how many times register() ran, over all routes
RECURSIVE SumRuns(_, _)
SumRuns(reg, routes) ==
  IF routes = {} THEN 0
  ELSE LET r == CHOOSE r \in routes : TRUE
       IN reg[r].runs + SumRuns(reg, routes \ {r})

Runs == SumRuns(registered, DOMAIN registered)
RunsAfter == SumRuns(registered', DOMAIN registered')

\* C18, first part: outside production, a step that begins and ends with a
\* status other than 'idle' writes no cache entry and runs no registration
C18_NothingWhileBusy ==
  (NODE_ENV # "production" /\ hotStatus # "idle" /\ hotStatus' # "idle")
    => /\ pageCache' = pageCache
       /\ registered' = registered

\* C18, second part: the status change to 'idle' runs every registration
\* that was waiting
C18_AllRunAtIdle ==
  (hotStatus # "idle" /\ hotStatus' = "idle")
    => /\ statusHandlers' = <<>>
       /\ RunsAfter = Runs + Len(statusHandlers)

\* C18, third part: a waiting registration runs once: a step either adds one
\* registerPage call, waiting or run, or moves waiting registrations to run
C18_EachRunsOnce ==
  \/ RunsAfter + Len(statusHandlers') = Runs + Len(statusHandlers)
  \/ /\ RunsAfter + Len(statusHandlers') = Runs + Len(statusHandlers) + 1
     /\ hotStatus' = hotStatus

C19_LoadsSettle ==
  \A i \in 1..MaxLoads :
    (i <= Len(promises) /\ promises[i].route \in DOMAIN BuildManifest)
      ~> (i <= Len(promises) /\ promises[i].st # "pending")

\* the routes that have, or had, a listener or a promise
KnownRoutes == DOMAIN all \cup {promises[i].route : i \in 1..Len(promises)}

\* C20: the listeners subscribed for a route are the fire callbacks of the
\* loadPage promises of that route that are pending, each once: no settled
\* promise's listener is subscribed, and no pending promise is without one
C20_ListenersArePending ==
  \A route \in KnownRoutes :
    LET subscribed == Get(all, route, <<>>)
    IN /\ {subscribed[k] : k \in 1..Len(subscribed)}
            = {i \in 1..Len(promises) :
                 promises[i].route = route /\ promises[i].st = "pending"}
       /\ \A j, k \in 1..Len(subscribed) : j # k => subscribed[j] # subscribed[k]

====
